---------------------------- MODULE Spec2Model ----------------------------
(***************************************************************************)
(* Model of src/server.ts: the express server (startServer and its two     *)
(* API routes) and the React dashboard (App, renderDashboard,              *)
(* LiveRushIndicator) that fetches /api/stats once on mount.               *)
(*                                                                         *)
(* Numbers that the source writes with a decimal point are kept exact by   *)
(* scaling: fields named ...Tenths hold the value times 10 (4.2 -> 42),    *)
(* weights are held in hundredths (0.4 -> 40), and a Math.random() draw    *)
(* r in [0, 1) is held as the integer 100 * r.                             *)
(*                                                                         *)
(* The source holds no SignalBus, OrderEstimator, RushAggregator or        *)
(* EstimationService: there is no order record, no submit, no recompute    *)
(* and no lock anywhere in it.  Nothing of those is modelled.              *)
(***************************************************************************)
EXTENDS Integers, Sequences, FiniteSets, TLC

VARIABLES
    serverPc,     \* startServer: "starting" until app.listen, then "listening"
    appPc,        \* App's mount effect: position in the fetch promise chain
    activeView,   \* useState<View>('dashboard')
    stats,        \* useState<Stats | null>(null)
    loading,      \* useState(true)
    res,          \* body of the /api/stats response the fetch resolved with
    data,         \* value res.json() resolved with
    errorsLogged, \* number of console.error calls made by the catch handler
    simData       \* body of the last /api/simulation/data response in flight

vars == <<serverPc, appPc, activeView, stats, loading, res, data,
          errorsLogged, simData>>

--------------------------------------------------------------------------
(* Bounds of the model *)

\* Orders per /api/simulation/data response (the source generates 20).
SimOrders == 1

\* Math.random() draws, as 100 * r: one below each threshold the source
\* compares a draw with, and one above the last.
RandomDraws == {0, 50, 99}

--------------------------------------------------------------------------
(* Values *)

\* JavaScript null / undefined: a record with no field of Stats.
Null == [null |-> TRUE]

\* No /api/simulation/data response on the wire (a response body is an array
\* of SimOrders >= 1 elements, never the empty one).
NoBody == <<>>

View == {"dashboard", "simulation", "merchant", "settings"}

\* liveRush of the /api/stats response.
ServerLiveRush ==
    [index   |-> 78,
     status  |-> "High",
     sources |-> << [name |-> "Zomato Orders",     volume |-> 45, weight |-> 40],
                    [name |-> "Competitor Orders", volume |-> 32, weight |-> 35],
                    [name |-> "In-Store Dining",   volume |-> 22, weight |-> 25] >>]

\* The object app.get("/api/stats") passes to res.json.
StatsResponse ==
    [avgRiderWaitTenths |-> 42,
     etaErrorP90Tenths  |-> 85,
     orderVolume        |-> 1250,
     activeMerchants    |-> 320,
     improvementTenths  |-> 185,
     liveRush           |-> ServerLiveRush]

\* The object the catch handler passes to setStats: no liveRush.
FallbackStats ==
    [avgRiderWaitTenths |-> 42,
     etaErrorP90Tenths  |-> 85,
     orderVolume        |-> 1250,
     activeMerchants    |-> 320,
     improvementTenths  |-> 185]

\* x?.liveRush: undefined when x is null or has no such property.
OptLiveRush(x) ==
    IF "liveRush" \in DOMAIN x THEN x.liveRush ELSE Null

\* ['preparing', 'ready', 'picked_up']
SimStatuses == <<"preparing", "ready", "picked_up">>

\* One element of the simulation array, from the four Math.random() draws
\* its object literal makes, in order.
SimOrder(i, rStatus, rProgress, rBiased, rLoad) ==
    [id       |-> "ORD-" \o ToString(i),
     status   |-> SimStatuses[((rStatus * 3) \div 100) + 1],
     progress |-> (rProgress * 100) \div 100,
     isBiased |-> rBiased > 70,
     load     |-> ((rLoad * 10) \div 100) + 1]

\* Every array Array.from({length}).map(...) can produce.
SimArrays ==
    { [i \in 1..SimOrders |->
          SimOrder(i - 1, d[i][1], d[i][2], d[i][3], d[i][4])] :
      d \in [1..SimOrders ->
                RandomDraws \X RandomDraws \X RandomDraws \X RandomDraws] }

--------------------------------------------------------------------------
(* Rendering: what the JSX of the current state mounts *)

\* The guard of line 335 dropped: <LiveRushIndicator data={stats.liveRush} />
\* mounted whatever stats holds.
DashboardShowsLiveRushUnguarded == TRUE

\* {stats?.liveRush && <LiveRushIndicator data={stats.liveRush} />}
DashboardShowsLiveRush == OptLiveRush(stats) # Null

\* LiveRushIndicator is part of renderDashboard, itself mounted only for
\* activeView === 'dashboard', and only once App is mounted.
LiveRushIndicatorRendered ==
    /\ appPc # "unloaded"
    /\ activeView = "dashboard"
    /\ DashboardShowsLiveRush

\* data.index > 70 ? rose : emerald, the badge and the gauge colour.
LiveRushColour(d) == IF d.index > 70 THEN "rose" ELSE "emerald"

\* What LiveRushIndicator prints: the index, "<status> Load", the colour.
LiveRushIndicator(d) ==
    [index |-> d.index, badge |-> d.status, colour |-> LiveRushColour(d)]

\* LiveRushIndicator's first read, data.index (line 131), and its
\* data.sources.map (line 169) throw a TypeError when data is undefined.
LiveRushIndicatorThrows(d) == d = Null

\* The render of the current state throws: LiveRushIndicator is mounted with
\* the data prop renderDashboard passes it, stats.liveRush, undefined.
RenderThrows ==
    /\ LiveRushIndicatorRendered
    /\ LiveRushIndicatorThrows(OptLiveRush(stats))

--------------------------------------------------------------------------
(* Initial state: the server process has started, no page is loaded *)

Init ==
    /\ serverPc = "starting"
    /\ appPc = "unloaded"
    /\ activeView = "dashboard"
    /\ stats = Null
    /\ loading = TRUE
    /\ res = Null
    /\ data = Null
    /\ errorsLogged = 0
    /\ simData = NoBody

--------------------------------------------------------------------------
(* Server *)

\* startServer: routes registered, middleware mounted, app.listen called.
StartServer ==
    /\ serverPc = "starting"
    /\ serverPc' = "listening"
    /\ UNCHANGED <<appPc, activeView, stats, loading, res, data,
                   errorsLogged, simData>>

\* app.get("/api/stats"): answers the App's request with the fixed object.
StatsHandler ==
    /\ serverPc = "listening"
    /\ appPc = "inflight"
    /\ res' = StatsResponse
    /\ appPc' = "responded"
    /\ UNCHANGED <<serverPc, activeView, stats, loading, data,
                   errorsLogged, simData>>

\* app.get("/api/simulation/data"): answers a client with a fresh array.
SimulationDataHandler ==
    /\ serverPc = "listening"
    /\ simData = NoBody
    /\ \E a \in SimArrays : simData' = a
    /\ UNCHANGED <<serverPc, appPc, activeView, stats, loading, res, data,
                   errorsLogged>>

\* The client of /api/simulation/data takes the response off the wire.
SimulationDataReceived ==
    /\ simData # NoBody
    /\ simData' = NoBody
    /\ UNCHANGED <<serverPc, appPc, activeView, stats, loading, res, data,
                   errorsLogged>>

--------------------------------------------------------------------------
(* App *)

\* The page is served by the listening server; App mounts with its
\* useState initial values.
MountApp ==
    /\ serverPc = "listening"
    /\ appPc = "unloaded"
    /\ appPc' = "mounted"
    /\ activeView' = "dashboard"
    /\ stats' = Null
    /\ loading' = TRUE
    /\ UNCHANGED <<serverPc, res, data, errorsLogged, simData>>

\* useEffect(() => { fetch('/api/stats') ... }, []): runs once after mount.
UseEffectFetch ==
    /\ appPc = "mounted"
    /\ appPc' = "inflight"
    /\ UNCHANGED <<serverPc, activeView, stats, loading, res, data,
                   errorsLogged, simData>>

\* The request fails on the network: fetch's promise rejects.
FetchRejects ==
    /\ appPc = "inflight"
    /\ appPc' = "rejected"
    /\ UNCHANGED <<serverPc, activeView, stats, loading, res, data,
                   errorsLogged, simData>>

\* res.json() rejects (the body is cut off on the network): the chain skips
\* the second .then and lands in .catch, like a rejected fetch.
JsonRejects ==
    /\ appPc = "responded"
    /\ appPc' = "rejected"
    /\ UNCHANGED <<serverPc, activeView, stats, loading, res, data,
                   errorsLogged, simData>>

\* .then(res => res.json()): the body the server serialised, parsed back.
ThenResJson ==
    /\ appPc = "responded"
    /\ data' = res
    /\ appPc' = "parsed"
    /\ UNCHANGED <<serverPc, activeView, stats, loading, res,
                   errorsLogged, simData>>

\* .then(data => { setStats(data); setLoading(false); })
ThenSetStats ==
    /\ appPc = "parsed"
    /\ stats' = data
    /\ loading' = FALSE
    /\ appPc' = "settled"
    /\ UNCHANGED <<serverPc, activeView, res, data, errorsLogged, simData>>

\* .catch(err => { console.error(...); setStats({...}); setLoading(false); })
CatchFallback ==
    /\ appPc = "rejected"
    /\ errorsLogged' = errorsLogged + 1
    /\ stats' = FallbackStats
    /\ loading' = FALSE
    /\ appPc' = "settled"
    /\ UNCHANGED <<serverPc, activeView, res, data, simData>>

\* SidebarItem onClick={() => setActiveView(v)}
SetActiveView(v) ==
    /\ appPc # "unloaded"
    /\ activeView # v
    /\ activeView' = v
    /\ UNCHANGED <<serverPc, appPc, stats, loading, res, data,
                   errorsLogged, simData>>

--------------------------------------------------------------------------

Next ==
    \/ StartServer
    \/ StatsHandler
    \/ SimulationDataHandler
    \/ SimulationDataReceived
    \/ MountApp
    \/ UseEffectFetch
    \/ FetchRejects
    \/ JsonRejects
    \/ ThenResJson
    \/ ThenSetStats
    \/ CatchFallback
    \/ \E v \in View : SetActiveView(v)

Spec == Init /\ [][Next]_vars

TypeOK ==
    /\ serverPc \in {"starting", "listening"}
    /\ appPc \in {"unloaded", "mounted", "inflight", "responded", "parsed",
                  "rejected", "settled"}
    /\ activeView \in View
    /\ stats \in {Null, StatsResponse, FallbackStats}
    /\ loading \in BOOLEAN
    /\ res \in {Null, StatsResponse}
    /\ data \in {Null, StatsResponse}
    /\ errorsLogged \in 0..1
    /\ simData \in {NoBody} \cup SimArrays

--------------------------------------------------------------------------
(* The rush-index formula as the specification states it (section 4.3):    *)
(* volumePct[s] = count[s] / total * 100, index = round(sum of             *)
(* volumePct[s] * weight[s]) clamped to [0, 100], 0 when total = 0.  With  *)
(* weights in hundredths the sum is (sum of count[s] * weight[s]) / total, *)
(* and Math.round(x) is floor(x + 1/2).                                    *)

RECURSIVE SumVolume(_)
SumVolume(sources) ==
    IF sources = <<>> THEN 0
    ELSE Head(sources).volume + SumVolume(Tail(sources))

RECURSIVE SumWeighted(_)
SumWeighted(sources) ==
    IF sources = <<>> THEN 0
    ELSE Head(sources).volume * Head(sources).weight
         + SumWeighted(Tail(sources))

Clamp(x, lo, hi) == IF x < lo THEN lo ELSE IF x > hi THEN hi ELSE x

RushIndexFormula(sources) ==
    LET total == SumVolume(sources)
    IN  IF total = 0 THEN 0
        ELSE Clamp((2 * SumWeighted(sources) + total) \div (2 * total), 0, 100)

RushBand(index) ==
    IF index > 70 THEN "High" ELSE IF index > 40 THEN "Moderate" ELSE "Low"

\* C9: every published rush index equals the formula applied to the
\* published per-source counts and weights, and the published status is the
\* band of that index; for 45 / 32 / 22 with weights 0.4 / 0.35 / 0.25 that
\* is index 35, status Low.  The published value is the liveRush the
\* /api/stats handler sends.  Violated: the handler sends index 78, High.
C9_PublishedIndexIsFormula ==
    res # Null =>
        /\ res.liveRush.index = RushIndexFormula(res.liveRush.sources)
        /\ res.liveRush.status = RushBand(RushIndexFormula(res.liveRush.sources))
        /\ RushIndexFormula(res.liveRush.sources) = 35

--------------------------------------------------------------------------
\* C14: once the /api/stats promise chain has settled (its .then or its
\* .catch callback has run) loading is false and stats is non-null;
\* LiveRushIndicator is rendered only while the dashboard view is active and
\* stats.liveRush is defined; after a rejected request stats is the fallback,
\* which has no liveRush, so LiveRushIndicator is not rendered; and no render
\* reads liveRush.index or liveRush.sources on an undefined value.
C14_LiveRushOnlyWhenDefined ==
    /\ appPc = "settled" => (loading = FALSE /\ stats # Null)
    /\ LiveRushIndicatorRendered =>
          /\ activeView = "dashboard"
          /\ "liveRush" \in DOMAIN stats
          /\ stats.liveRush # Null
    /\ (appPc = "settled" /\ errorsLogged > 0) =>
          /\ stats = FallbackStats
          /\ "liveRush" \notin DOMAIN stats
          /\ ~LiveRushIndicatorRendered
    /\ ~RenderThrows

\* C14's case: the request was rejected, the catch handler has run, and the
\* dashboard is showing without LiveRushIndicator.
C14_RejectedDashboardShown ==
    /\ appPc = "settled"
    /\ errorsLogged = 1
    /\ loading = FALSE
    /\ stats = FallbackStats
    /\ activeView = "dashboard"
    /\ ~LiveRushIndicatorRendered

\* The other case of C14: the request resolved and the dashboard mounts
\* LiveRushIndicator with the server's liveRush.
C14_ResolvedDashboardShown ==
    /\ appPc = "settled"
    /\ errorsLogged = 0
    /\ loading = FALSE
    /\ LiveRushIndicatorRendered
    /\ LiveRushIndicator(stats.liveRush).index = 78

==========================================================================
